---- MODULE Spec2Model ----
(***************************************************************************)
(* testflinger v1 API (src/testflinger/v1.py): the job queue, the result   *)
(* and artifact files under DATA_PATH, and the per-job output stream kept  *)
(* in Redis, with the request handlers running concurrently.               *)
(*                                                                         *)
(* Every byte string (a job id, a queue name, a JSON document, a file's    *)
(* content, a Redis list element) is a tuple of one-character strings; a   *)
(* byte that is no ASCII character is written as its hexadecimal value.    *)
(***************************************************************************)
EXTENDS Integers, Sequences, FiniteSets, TLC

(***************************************************************************)
(* Bounds of the model.                                                    *)
(***************************************************************************)
\* concurrent request handlers (threads or processes of the web server)
NumProcs == 2
\* job submissions that reach the queue in one run
MaxPush == 2
\* output chunks appended in one run
MaxChunks == 2
\* ids uuid.uuid4() hands out in one run
MaxGen == 1

Procs == 1..NumProcs

(***************************************************************************)
(* Text helpers.                                                           *)
(***************************************************************************)
Rep(c, n) == [i \in 1..n |-> c]

Min(a, b) == IF a < b THEN a ELSE b

StartsWith(s, pat) ==
    /\ Len(s) >= Len(pat)
    /\ SubSeq(s, 1, Len(pat)) = pat

Drop(s, n) == SubSeq(s, n + 1, Len(s))

\* str.replace(pat, ''): every non-overlapping occurrence, left to right
RECURSIVE RemoveAll(_, _)
RemoveAll(s, pat) ==
    IF s = <<>> THEN <<>>
    ELSE IF StartsWith(s, pat) THEN RemoveAll(Drop(s, Len(pat)), pat)
    ELSE <<Head(s)>> \o RemoveAll(Tail(s), pat)

\* str.strip(chars): leading and trailing characters of the set removed
RECURSIVE LStrip(_, _)
LStrip(s, chars) ==
    IF s # <<>> /\ Head(s) \in chars THEN LStrip(Tail(s), chars) ELSE s

RECURSIVE RStrip(_, _)
RStrip(s, chars) ==
    IF s # <<>> /\ s[Len(s)] \in chars
    THEN RStrip(SubSeq(s, 1, Len(s) - 1), chars) ELSE s

Strip(s, chars) == RStrip(LStrip(s, chars), chars)

HexDigits ==
    {"0", "1", "2", "3", "4", "5", "6", "7", "8", "9",
     "a", "b", "c", "d", "e", "f", "A", "B", "C", "D", "E", "F"}

Whitespace == {" ", "\t", "\n"}

(***************************************************************************)
(* check_valid_uuid: uuid.UUID(job_id) raises or not.  uuid.UUID(hex)      *)
(* removes 'urn:' and 'uuid:', strips braces, removes hyphens, wants 32    *)
(* characters left and parses them with int(hex, 16).                      *)
(***************************************************************************)
\* int(s, 16) parses: surrounding whitespace, a sign, a 0x prefix and single
\* underscores between digits are all accepted by Python
IntBase16Parses(s) ==
    LET t0 == Strip(s, Whitespace)
        t1 == IF t0 # <<>> /\ Head(t0) \in {"+", "-"} THEN Tail(t0) ELSE t0
        pre == StartsWith(t1, <<"0", "x">>) \/ StartsWith(t1, <<"0", "X">>)
        t2 == IF pre THEN Drop(t1, 2) ELSE t1
        t3 == IF pre /\ t2 # <<>> /\ Head(t2) = "_" THEN Tail(t2) ELSE t2
    IN  /\ t3 # <<>>
        /\ \A i \in 1..Len(t3) : t3[i] \in HexDigits \cup {"_"}
        /\ t3[1] \in HexDigits
        /\ t3[Len(t3)] \in HexDigits
        /\ \A i \in 1..(Len(t3) - 1) : ~(t3[i] = "_" /\ t3[i + 1] = "_")

UuidHexLen == 32

UuidStripped(job_id) ==
    LET h1 == RemoveAll(job_id, <<"u", "r", "n", ":">>)
        h2 == RemoveAll(h1, <<"u", "u", "i", "d", ":">>)
        h3 == Strip(h2, {"{", "}"})
    IN  RemoveAll(h3, <<"-">>)

\* uuid.UUID(job_id) does not raise
UuidParses(job_id) ==
    /\ Len(UuidStripped(job_id)) = UuidHexLen
    /\ IntBase16Parses(UuidStripped(job_id))

(***************************************************************************)
(* Inputs: job ids.                                                        *)
(***************************************************************************)
\* the canonical 8-4-4-4-12 rendering of the UUID whose hex digits are all c
Canon(c) ==
    Rep(c, 8) \o <<"-">> \o Rep(c, 4) \o <<"-">> \o Rep(c, 4) \o <<"-">>
        \o Rep(c, 4) \o <<"-">> \o Rep(c, 12)

\* a caller's id in canonical form
U1 == Canon("a")
\* not a UUID in any rendering, yet uuid.UUID parses it (0x prefix of int())
OxId == <<"0", "x">> \o Rep("a", 30)
NotAUuid == <<"n", "o", "t", "-", "a", "-", "u", "u", "i", "d">>
EmptyId == <<>>

\* the ids uuid.uuid4() can hand out (canonical renderings)
GenDigit == <<"b", "c", "d", "e", "f">>
GenPool == {Canon(GenDigit[i]) : i \in 1..MaxGen}
\* ids a caller can come up with on its own
UserIds == {U1, OxId, NotAUuid}

\* uuid.UUID's verdict on each id of the model, computed once
ParsedIds == [id \in UserIds \cup GenPool \cup {EmptyId} |-> UuidParses(id)]

\* check_valid_uuid: False when uuid.UUID raises, True otherwise
CheckValidUuid(job_id) ==
    IF job_id \in DOMAIN ParsedIds THEN ParsedIds[job_id] ELSE UuidParses(job_id)

(***************************************************************************)
(* Python values and JSON.                                                 *)
(***************************************************************************)
\* Python's None (no character tuple equals it)
None == <<"None">>

\* "not v" for None and for strings
Falsy(v) == v = None \/ v = <<>>

KeyJobQueue == <<"j", "o", "b", "_", "q", "u", "e", "u", "e">>
KeyJobId == <<"j", "o", "b", "_", "i", "d">>
KeyJobState == <<"j", "o", "b", "_", "s", "t", "a", "t", "e">>
Waiting == <<"w", "a", "i", "t", "i", "n", "g">>
Resubmitted == <<"r", "e", "s", "u", "b", "m", "i", "t", "t", "e", "d">>
Complete == <<"c", "o", "m", "p", "l", "e", "t", "e">>
KeyExitCode == <<"e", "x", "i", "t", "_", "c", "o", "d", "e">>

\* a parsed JSON document: a mapping (its items in order) or something else
Mapping(items) == [mapping |-> TRUE, items |-> items]
NotMapping == [mapping |-> FALSE, items |-> <<>>]

HasKey(items, key) == \E i \in 1..Len(items) : items[i][1] = key

\* dict.get(key)
DictGet(items, key) ==
    IF HasKey(items, key)
    THEN items[CHOOSE i \in 1..Len(items) : items[i][1] = key][2]
    ELSE None

\* dict[key] = value
DictSet(items, key, value) ==
    IF HasKey(items, key)
    THEN [i \in 1..Len(items) |->
            IF items[i][1] = key THEN <<key, value>> ELSE items[i]]
    ELSE Append(items, <<key, value>>)

JsonStr(s) == <<"\"">> \o s \o <<"\"">>

RECURSIVE DumpsItems(_)
DumpsItems(items) ==
    IF items = <<>> THEN <<>>
    ELSE JsonStr(items[1][1]) \o <<":", " ">> \o JsonStr(items[1][2])
            \o (IF Len(items) > 1 THEN <<",", " ">> ELSE <<>>)
            \o DumpsItems(Tail(items))

\* json.dumps of a mapping of strings
Dumps(items) == <<"{">> \o DumpsItems(items) \o <<"}">>

\* json.dumps({'job_state': job_state})
DumpsState(job_state) == Dumps(<< <<KeyJobState, job_state>> >>)

(***************************************************************************)
(* Inputs: queue names, request bodies.                                    *)
(***************************************************************************)
Q1 == <<"q", "1">>
Q2 == <<"q", "2">>
QueueNames == {Q1, Q2}

\* the queue lists of a claim: ?queue=... repeated, in order
QueueLists == {<<>>, <<Q2>>, <<Q1, Q2>>}

\* the results a worker posts
ResultDatas == {<< <<KeyJobState, Complete>>, <<KeyExitCode, <<"0">> >> >>}

\* artifact bundles
ArtifactBlobs == {<<"t", "g", "z">>}

\* the byte 0xFF, which no UTF-8 text contains
ByteFF == "FF"

\* output chunks: a line of text, and bytes that are no text
OutputChunks == {<<"o">>, <<ByteFF>>}

(***************************************************************************)
(* Paths and keys.                                                         *)
(***************************************************************************)
DataPath == <<"/", "d">>

\* os.path.join(a, b): b alone when it is absolute
PathJoin(a, b) ==
    IF b # <<>> /\ Head(b) = "/" THEN b ELSE a \o <<"/">> \o b

ResultFile(job_id) == PathJoin(DataPath, job_id)

ArtifactFile(job_id) ==
    PathJoin(DataPath, job_id \o <<".", "a", "r", "t", "i", "f", "a", "c", "t">>)

\* "stream_{}".format(job_id)
OutputKey(job_id) == <<"s", "t", "r", "e", "a", "m", "_">> \o job_id

(***************************************************************************)
(* State.                                                                  *)
(***************************************************************************)
VARIABLES
    proc,       \* per handler: where it is in its request, and its locals
    lists,      \* Redis: key -> its list (a key exists iff its list is non-empty)
    expires,    \* Redis: the keys with a time to live set
    blocked,    \* Redis: the clients blocked in BRPOP, longest waiting first
    files,      \* DATA_PATH: path -> content of the file
    resp,       \* the last response sent
    issued,     \* the ids uuid.uuid4() has handed out
    pushed,     \* history: the job submissions pushed, in order
    delivered,  \* history: the list elements BRPOP handed to claims, in order
    appended,   \* history: the output chunks appended, in order
    drained,    \* history: the list elements output_get's replies held, in order
    reclaimed,  \* history: the list elements lost when a key expired
    submitted,  \* history: the ids for which a job_post has returned its id
    written,    \* history: path -> the data of the last completed write
    posting,    \* history: the ids for which a result_post has begun to write
    posted      \* history: id -> the last completed result_post

vars ==
    <<proc, lists, expires, blocked, files, resp, issued, pushed, delivered,
      appended, drained, reclaimed, submitted, written, posting, posted>>

redisVars == <<lists, expires, blocked>>
histVars ==
    <<pushed, delivered, appended, drained, reclaimed, submitted, written,
      posting, posted>>

Idle == [pc |-> "idle"]

\* f with key k set to v
Put(f, k, v) == [x \in (DOMAIN f) \cup {k} |-> IF x = k THEN v ELSE f[x]]

\* f without key k
Del(f, k) == [x \in (DOMAIN f) \ {k} |-> f[x]]

ListOf(key) == IF key \in DOMAIN lists THEN lists[key] ELSE <<>>

\* a Redis list with the given content: an empty list is no key
WithList(key, list) == IF list = <<>> THEN Del(lists, key) ELSE Put(lists, key, list)

Response(op, code, body) == [op |-> op, code |-> code, body |-> body]

NoResponse == Response("none", 0, <<>>)

Init ==
    /\ proc = [p \in Procs |-> Idle]
    /\ lists = <<>>
    /\ expires = {}
    /\ blocked = <<>>
    /\ files = <<>>
    /\ resp = NoResponse
    /\ issued = {}
    /\ pushed = <<>>
    /\ delivered = <<>>
    /\ appended = <<>>
    /\ drained = <<>>
    /\ reclaimed = {}
    /\ submitted = {}
    /\ written = <<>>
    /\ posting = {}
    /\ posted = <<>>

(***************************************************************************)
(* Redis list commands.                                                    *)
(***************************************************************************)
\* (mutant) the push goes to the end BRPOP takes from
LPushedAtTail(list, elem) == Append(list, elem)

\* LPUSH: at the head
LPushed(list, elem) == <<elem>> \o list

\* RPUSH: at the tail
RPushed(list, elem) == Append(list, elem)

\* (mutant) the tail is read and left in the list
RPopRestKeepsTail(list) == list

\* what is left after BRPOP took the tail
RPopRest(list) == SubSeq(list, 1, Len(list) - 1)

\* the positions in `blocked` of the clients waiting on key
Waiters(key) ==
    {i \in 1..Len(blocked) :
        \E j \in 1..Len(proc[blocked[i]].keys) : proc[blocked[i]].keys[j] = key}

FirstOf(S) == CHOOSE i \in S : \A j \in S : i <= j

RemoveAt(s, i) == SubSeq(s, 1, i - 1) \o SubSeq(s, i + 1, Len(s))

\* A push by handler p, which goes on as newp: the longest-waiting client blocked
\* on the key is served the element as the command ends, else the list grows.
PushOnKey(p, newp, key, elem, left) ==
    IF Waiters(key) # {}
    THEN LET i == FirstOf(Waiters(key))
             w == blocked[i]
         IN  /\ proc' = [proc EXCEPT ![p] = newp,
                                     ![w] = [pc |-> "jg_got", job |-> elem.bytes]]
             /\ blocked' = RemoveAt(blocked, i)
             /\ delivered' = Append(delivered, elem)
             /\ UNCHANGED lists
    ELSE /\ proc' = [proc EXCEPT ![p] = newp]
         /\ lists' = Put(lists, key,
                         IF left THEN LPushed(ListOf(key), elem)
                                 ELSE RPushed(ListOf(key), elem))
         /\ UNCHANGED <<blocked, delivered>>

\* (mutant) the last key of the list that has elements
BrpopKeyLast(keys) ==
    IF \E j \in 1..Len(keys) : ListOf(keys[j]) # <<>>
    THEN keys[CHOOSE j \in 1..Len(keys) :
                /\ ListOf(keys[j]) # <<>>
                /\ \A k \in (j + 1)..Len(keys) : ListOf(keys[k]) = <<>>]
    ELSE None

\* BRPOP's choice: the first key of the list, in order, that has elements
BrpopKey(keys) ==
    IF \E j \in 1..Len(keys) : ListOf(keys[j]) # <<>>
    THEN keys[FirstOf({j \in 1..Len(keys) : ListOf(keys[j]) # <<>>})]
    ELSE None

(***************************************************************************)
(* Files under DATA_PATH.                                                  *)
(***************************************************************************)
\* open(path, 'w'): the file is created, or cut to nothing
Truncated(path) == Put(files, path, <<>>)

\* the one write through a handle opened with 'w': at offset 0, over what is
\* there by now, keeping what lies beyond the data
Overwritten(path, data) ==
    Put(files, path, data \o Drop(files[path], Min(Len(data), Len(files[path]))))

(***************************************************************************)
(* job_post: POST /v1/job                                                  *)
(***************************************************************************)
\* a request body with the given job_queue and job_id (None: the key is absent)
JobData(q, id) ==
    Mapping((IF q = None THEN <<>> ELSE << <<KeyJobQueue, q>> >>)
                \o (IF id = None THEN <<>> ELSE << <<KeyJobId, id>> >>))

\* the request bodies whose job_queue, when there is one, is empty or among
\* queues, and whose job_id, when there is one, is empty or among ids
JobDatasOn(queues, ids) ==
    {NotMapping}
        \cup {JobData(q, id) : q \in {None, <<>>} \cup queues,
                               id \in {None, EmptyId} \cup ids}

JobDatas(ids) == JobDatasOn(QueueNames, ids)

\* (mutant) a request that names no queue goes to a default queue
JobQueueOrDefault(data) ==
    IF data.mapping /\ ~Falsy(DictGet(data.items, KeyJobQueue))
    THEN DictGet(data.items, KeyJobQueue) ELSE Q1

\* lines 39-43: data.get('job_queue'), None when data has no .get
JobQueueOf(data) ==
    IF data.mapping THEN DictGet(data.items, KeyJobQueue) ELSE None

MsgNoQueue == <<"Invalid data or no job_queue specified\n">>
MsgBadJobId == <<"Invalid job_id specified\n">>
MsgInvalidId == <<"Invalid job id\n">>
MsgNoQueues == <<"No queue(s) specified in request">>
MsgOk == <<"OK">>

\* jsonify(job_id=job_id)
JobIdReply(job_id) == Dumps(<< <<KeyJobId, job_id>> >>)

\* the element submit_job pushes for the n-th submission
JobElem(n, items) == [kind |-> "job", n |-> n, bytes |-> Dumps(items)]

\* (mutant) the placeholder is 'waiting' whatever is there
JobStateAlwaysWaiting(result_file) == Waiting

\* lines 57-60: the placeholder, by whether the result file exists
JobState(result_file) ==
    IF result_file \in DOMAIN files THEN Resubmitted ELSE Waiting

\* lines 38-54: the checks, the id, and submit_job's LPUSH
JobPost(p, data) ==
    /\ proc[p].pc = "idle"
    /\ IF Falsy(JobQueueOf(data))
       THEN /\ resp' = Response("job_post", 400, MsgNoQueue)
            /\ UNCHANGED <<proc, redisVars, files, issued, histVars>>
       ELSE LET job_queue == JobQueueOf(data)
                given == DictGet(data.items, KeyJobId)
            IN  IF ~Falsy(given) /\ ~CheckValidUuid(given)
                THEN /\ resp' = Response("job_post", 400, MsgBadJobId)
                     /\ UNCHANGED <<proc, redisVars, files, issued, histVars>>
                ELSE /\ Len(pushed) < MaxPush
                     /\ \E job_id \in IF Falsy(given) THEN GenPool \ issued
                                                      ELSE {given} :
                          LET items == IF Falsy(given)
                                       THEN DictSet(data.items, KeyJobId, job_id)
                                       ELSE data.items
                          IN  /\ issued' = IF Falsy(given) THEN issued \cup {job_id}
                                                           ELSE issued
                              /\ pushed' = Append(pushed,
                                     [key |-> job_queue, job_id |-> job_id,
                                      items |-> items])
                              /\ PushOnKey(p, [pc |-> "jp_exists", job_id |-> job_id,
                                               job_state |-> None,
                                               fresh |-> Falsy(given),
                                               again |-> job_id \in submitted],
                                           job_queue,
                                           JobElem(Len(pushed) + 1, items), TRUE)
                     /\ UNCHANGED <<expires, files, resp, appended, drained,
                                    reclaimed, submitted, written, posting, posted>>

\* lines 56-60: os.path.exists decides the placeholder
JobPostExists(p) ==
    /\ proc[p].pc = "jp_exists"
    /\ proc' = [proc EXCEPT ![p].pc = "jp_open",
                            ![p].job_state = JobState(ResultFile(proc[p].job_id))]
    /\ UNCHANGED <<redisVars, files, resp, issued, histVars>>

\* line 61: open(result_file, 'w')
JobPostOpen(p) ==
    /\ proc[p].pc = "jp_open"
    /\ files' = Truncated(ResultFile(proc[p].job_id))
    /\ proc' = [proc EXCEPT ![p].pc = "jp_write"]
    /\ UNCHANGED <<redisVars, resp, issued, histVars>>

\* lines 62-63: the write reaches the file as it is closed; the id is returned
JobPostWrite(p) ==
    /\ proc[p].pc = "jp_write"
    /\ files' = Overwritten(ResultFile(proc[p].job_id), DumpsState(proc[p].job_state))
    /\ written' = Put(written, ResultFile(proc[p].job_id),
                      DumpsState(proc[p].job_state))
    /\ submitted' = submitted \cup {proc[p].job_id}
    /\ resp' = Response("job_post", 200, JobIdReply(proc[p].job_id))
    /\ proc' = [proc EXCEPT ![p] = Idle]
    /\ UNCHANGED <<redisVars, issued, pushed, delivered, appended, drained,
                   reclaimed, posting, posted>>

(***************************************************************************)
(* job_get: GET /v1/job?queue=...                                          *)
(***************************************************************************)
\* lines 72-75: the job, or 204 with nothing
JobReply(job) ==
    IF Falsy(job) THEN Response("job_get", 204, <<>>)
    ELSE Response("job_get", 200, job)

\* lines 68-75 and get_job: BRPOP returns at once when a listed queue has a job
JobGet(p, queue_list) ==
    /\ proc[p].pc = "idle"
    /\ IF queue_list = <<>>
       THEN /\ resp' = Response("job_get", 400, MsgNoQueues)
            /\ UNCHANGED <<proc, redisVars, files, issued, histVars>>
       ELSE IF BrpopKey(queue_list) # None
       THEN LET key == BrpopKey(queue_list)
                elem == lists[key][Len(lists[key])]
            IN  /\ lists' = WithList(key, RPopRest(lists[key]))
                /\ expires' = IF RPopRest(lists[key]) = <<>> THEN expires \ {key}
                                                           ELSE expires
                /\ delivered' = Append(delivered, elem)
                /\ resp' = JobReply(elem.bytes)
                /\ UNCHANGED <<proc, blocked, files, issued, pushed, appended,
                               drained, reclaimed, submitted, written, posting,
                               posted>>
       ELSE /\ proc' = [proc EXCEPT ![p] = [pc |-> "brpop", keys |-> queue_list]]
            /\ blocked' = Append(blocked, p)
            /\ UNCHANGED <<lists, expires, files, resp, issued, histVars>>

\* (mutant) timeout=0: BRPOP waits for a job for ever
BrpopBlocksForever(p) == FALSE /\ UNCHANGED vars

\* BRPOP's timeout=1 elapses: None, the TypeError of the unpacking, 204
BrpopTimeout(p) ==
    /\ proc[p].pc = "brpop"
    /\ blocked' = SelectSeq(blocked, LAMBDA q : q # p)
    /\ resp' = JobReply(None)
    /\ proc' = [proc EXCEPT ![p] = Idle]
    /\ UNCHANGED <<lists, expires, files, issued, histVars>>

\* a blocked BRPOP was served by a push: the handler returns the job
JobGetReturn(p) ==
    /\ proc[p].pc = "jg_got"
    /\ resp' = JobReply(proc[p].job)
    /\ proc' = [proc EXCEPT ![p] = Idle]
    /\ UNCHANGED <<redisVars, files, issued, histVars>>

\* whether a claim has been handed a job submitted under job_id
Claimed(job_id) ==
    \E i \in 1..Len(delivered) :
        /\ delivered[i].kind = "job"
        /\ pushed[delivered[i].n].job_id = job_id

(***************************************************************************)
(* result_post, result_get: /v1/result/<job_id>                            *)
(***************************************************************************)
\* lines 84-88: the check, then open(result_file, 'w')
ResultPost(p, job_id, data) ==
    /\ proc[p].pc = "idle"
    /\ IF ~CheckValidUuid(job_id)
       THEN /\ resp' = Response("result_post", 400, MsgInvalidId)
            /\ UNCHANGED <<proc, redisVars, files, issued, histVars>>
       ELSE /\ files' = Truncated(ResultFile(job_id))
            /\ posting' = posting \cup {job_id}
            /\ proc' = [proc EXCEPT ![p] =
                            [pc |-> "rp_write", job_id |-> job_id,
                             data |-> Dumps(data), claimed |-> Claimed(job_id)]]
            /\ UNCHANGED <<redisVars, resp, issued, pushed, delivered, appended,
                           drained, reclaimed, submitted, written, posted>>

\* lines 89-90: the write reaches the file as it is closed
ResultPostWrite(p) ==
    /\ proc[p].pc = "rp_write"
    /\ files' = Overwritten(ResultFile(proc[p].job_id), proc[p].data)
    /\ written' = Put(written, ResultFile(proc[p].job_id), proc[p].data)
    /\ posted' = Put(posted, proc[p].job_id,
                     [data |-> proc[p].data, claimed |-> proc[p].claimed])
    /\ resp' = Response("result_post", 200, MsgOk)
    /\ proc' = [proc EXCEPT ![p] = Idle]
    /\ UNCHANGED <<redisVars, issued, pushed, delivered, appended, drained,
                   reclaimed, submitted, posting>>

\* (mutant) the read opens the file in a mode that creates it
ResultGetCreates(p, job_id) ==
    /\ proc[p].pc = "idle"
    /\ CheckValidUuid(job_id)
    /\ files' = IF ResultFile(job_id) \in DOMAIN files THEN files
                 ELSE Truncated(ResultFile(job_id))
    /\ resp' = Response("result_get", 200,
                        IF ResultFile(job_id) \in DOMAIN files
                        THEN files[ResultFile(job_id)] ELSE <<>>)
    /\ UNCHANGED <<proc, redisVars, issued, histVars>>

\* lines 99-103: the check, then os.path.exists
ResultGet(p, job_id) ==
    /\ proc[p].pc = "idle"
    /\ IF ~CheckValidUuid(job_id)
       THEN /\ resp' = Response("result_get", 400, MsgInvalidId)
            /\ UNCHANGED proc
       ELSE IF ResultFile(job_id) \notin DOMAIN files
       THEN /\ resp' = Response("result_get", 204, <<>>)
            /\ UNCHANGED proc
       ELSE /\ proc' = [proc EXCEPT ![p] = [pc |-> "rg_read", job_id |-> job_id]]
            /\ UNCHANGED resp
    /\ UNCHANGED <<redisVars, files, issued, histVars>>

\* (mutant) the read consumes the record, as a drain does
ResultGetReadConsumes(p) ==
    /\ proc[p].pc = "rg_read"
    /\ resp' = Response("result_get", 200, files[ResultFile(proc[p].job_id)])
    /\ files' = Del(files, ResultFile(proc[p].job_id))
    /\ proc' = [proc EXCEPT ![p] = Idle]
    /\ UNCHANGED <<redisVars, issued, histVars>>

\* lines 104-106: the content of the file is the response
ResultGetRead(p) ==
    /\ proc[p].pc = "rg_read"
    /\ resp' = Response("result_get", 200, files[ResultFile(proc[p].job_id)])
    /\ proc' = [proc EXCEPT ![p] = Idle]
    /\ UNCHANGED <<redisVars, files, issued, histVars>>

(***************************************************************************)
(* artifacts_post, artifacts_get: /v1/result/<job_id>/artifact             *)
(***************************************************************************)
\* lines 115-119: the check, then file.save opens the destination for writing
ArtifactsPost(p, job_id, blob) ==
    /\ proc[p].pc = "idle"
    /\ IF ~CheckValidUuid(job_id)
       THEN /\ resp' = Response("artifacts_post", 400, MsgInvalidId)
            /\ UNCHANGED <<proc, redisVars, files, issued, histVars>>
       ELSE /\ files' = Truncated(ArtifactFile(job_id))
            /\ proc' = [proc EXCEPT ![p] =
                            [pc |-> "ap_write", job_id |-> job_id, data |-> blob]]
            /\ UNCHANGED <<redisVars, resp, issued, histVars>>

\* lines 119-120: file.save copies the upload into the file
ArtifactsPostWrite(p) ==
    /\ proc[p].pc = "ap_write"
    /\ files' = Overwritten(ArtifactFile(proc[p].job_id), proc[p].data)
    /\ written' = Put(written, ArtifactFile(proc[p].job_id), proc[p].data)
    /\ resp' = Response("artifacts_post", 200, MsgOk)
    /\ proc' = [proc EXCEPT ![p] = Idle]
    /\ UNCHANGED <<redisVars, issued, pushed, delivered, appended, drained,
                   reclaimed, submitted, posting, posted>>

\* lines 131-136: the check, then os.path.exists
ArtifactsGet(p, job_id) ==
    /\ proc[p].pc = "idle"
    /\ IF ~CheckValidUuid(job_id)
       THEN /\ resp' = Response("artifacts_get", 400, MsgInvalidId)
            /\ UNCHANGED proc
       ELSE IF ArtifactFile(job_id) \notin DOMAIN files
       THEN /\ resp' = Response("artifacts_get", 204, <<>>)
            /\ UNCHANGED proc
       ELSE /\ proc' = [proc EXCEPT ![p] = [pc |-> "ag_send", job_id |-> job_id]]
            /\ UNCHANGED resp
    /\ UNCHANGED <<redisVars, files, issued, histVars>>

\* line 137: send_file reads the file into the response
ArtifactsGetSend(p) ==
    /\ proc[p].pc = "ag_send"
    /\ resp' = Response("artifacts_get", 200, files[ArtifactFile(proc[p].job_id)])
    /\ proc' = [proc EXCEPT ![p] = Idle]
    /\ UNCHANGED <<redisVars, files, issued, histVars>>

(***************************************************************************)
(* output_get, output_post: /v1/result/<job_id>/output                     *)
(***************************************************************************)
Max(a, b) == IF a > b THEN a ELSE b

\* LRANGE key start stop: zero-based, inclusive, negative from the end
LRange(list, start, stop) ==
    LET n == Len(list)
        a == IF start < 0 THEN Max(n + start, 0) ELSE start
        b == IF stop < 0 THEN n + stop ELSE Min(stop, n - 1)
    IN  SubSeq(list, a + 1, b + 1)

\* line 155, as the transaction runs it: every element of the list
PipelineRead(list) == LRange(list, 0, -1)

\* bytes.decode(): whether the bytes are UTF-8 text (else UnicodeDecodeError)
Utf8Decodes(bytes) == \A i \in 1..Len(bytes) : bytes[i] # ByteFF

\* the UnicodeDecodeError a decode raises
DecodeError == <<"UnicodeDecodeError">>

\* x.decode(): the text, which the response encodes as UTF-8 again
Decoded(bytes) == IF Utf8Decodes(bytes) THEN bytes ELSE DecodeError

\* '\n'.join([x.decode() for x in output[0]])
RECURSIVE JoinLines(_)
JoinLines(elems) ==
    IF elems = <<>> THEN <<>>
    ELSE Decoded(elems[1].bytes)
            \o (IF Len(elems) > 1 THEN <<"\n">> ELSE <<>>)
            \o JoinLines(Tail(elems))

MsgServerError == <<"Internal Server Error">>

\* lines 158-161; an element that does not decode raises out of the handler
OutputReply(out) ==
    IF out = <<>> THEN Response("output_get", 204, <<>>)
    ELSE IF \A i \in 1..Len(out) : Decoded(out[i].bytes) # DecodeError
    THEN Response("output_get", 200, JoinLines(out))
    ELSE Response("output_get", 500, MsgServerError)

\* lines 148-161: the check, then LRANGE and DEL in one MULTI/EXEC transaction
OutputGet(p, job_id) ==
    /\ proc[p].pc = "idle"
    /\ IF ~CheckValidUuid(job_id)
       THEN /\ resp' = Response("output_get", 400, MsgInvalidId)
            /\ UNCHANGED <<lists, expires, drained>>
       ELSE LET out == PipelineRead(ListOf(OutputKey(job_id)))
            IN  /\ lists' = Del(lists, OutputKey(job_id))
                /\ expires' = expires \ {OutputKey(job_id)}
                /\ resp' = OutputReply(out)
                /\ drained' = IF OutputReply(out).code = 200 THEN drained \o out
                                                            ELSE drained
    /\ UNCHANGED <<proc, blocked, files, issued, pushed, delivered, appended,
                   reclaimed, submitted, written, posting, posted>>

ChunkElem(n, data) == [kind |-> "chunk", n |-> n, bytes |-> data]

\* lines 172-179: the check, then RPUSH
OutputPost(p, job_id, data) ==
    /\ proc[p].pc = "idle"
    /\ IF ~CheckValidUuid(job_id)
       THEN /\ resp' = Response("output_post", 400, MsgInvalidId)
            /\ UNCHANGED <<proc, redisVars, files, issued, histVars>>
       ELSE /\ Len(appended) < MaxChunks
            /\ appended' = Append(appended,
                                  [key |-> OutputKey(job_id), data |-> data])
            /\ PushOnKey(p, [pc |-> "op_expire", job_id |-> job_id],
                         OutputKey(job_id),
                         ChunkElem(Len(appended) + 1, data), FALSE)
            /\ UNCHANGED <<expires, files, resp, issued, pushed, drained,
                           reclaimed, submitted, written, posting, posted>>

\* (mutant) the time to live is set only where one is set already
ExpiringKept(key) == expires

\* EXPIRE key seconds: sets the time to live of a key that exists
Expiring(key) == IF key \in DOMAIN lists THEN expires \cup {key} ELSE expires

\* lines 181-182: EXPIRE, then OK
OutputPostExpire(p) ==
    /\ proc[p].pc = "op_expire"
    /\ expires' = Expiring(OutputKey(proc[p].job_id))
    /\ resp' = Response("output_post", 200, MsgOk)
    /\ proc' = [proc EXCEPT ![p] = Idle]
    /\ UNCHANGED <<lists, blocked, files, issued, histVars>>

\* the 14400 seconds of a key pass with no append: Redis drops the key
KeyExpires(key) ==
    /\ key \in expires
    /\ lists' = Del(lists, key)
    /\ expires' = expires \ {key}
    /\ reclaimed' = reclaimed \cup {lists[key][i] : i \in 1..Len(lists[key])}
    /\ UNCHANGED <<proc, blocked, files, resp, issued, pushed, delivered,
                   appended, drained, submitted, written, posting, posted>>

(***************************************************************************)
(* Specifications.                                                         *)
(***************************************************************************)
\* whether a response has told a caller the generated id: job_post has returned
\* it, or a claim has returned a job that carries it
Disclosed(job_id) ==
    \/ job_id \in submitted
    \/ \E i \in 1..Len(delivered) :
        /\ delivered[i].kind = "job"
        /\ pushed[delivered[i].n].job_id = job_id
        /\ \A p \in Procs :
            ~(proc[p].pc = "jg_got" /\ proc[p].job = delivered[i].bytes)

\* Jobs and results: the ids in play are the generated ones a caller has been
\* told, and a string that is no UUID.
JobIds == {NotAUuid} \cup {id \in issued : Disclosed(id)}

Next ==
    \/ \E p \in Procs : \E data \in JobDatas(JobIds) : JobPost(p, data)
    \/ \E p \in Procs : JobPostExists(p)
    \/ \E p \in Procs : JobPostOpen(p)
    \/ \E p \in Procs : JobPostWrite(p)
    \/ \E p \in Procs : \E queue_list \in QueueLists : JobGet(p, queue_list)
    \/ \E p \in Procs : BrpopTimeout(p)
    \/ \E p \in Procs : JobGetReturn(p)
    \/ \E p \in Procs : \E job_id \in JobIds : \E data \in ResultDatas :
            ResultPost(p, job_id, data)
    \/ \E p \in Procs : ResultPostWrite(p)
    \/ \E p \in Procs : \E job_id \in JobIds : ResultGet(p, job_id)
    \/ \E p \in Procs : ResultGetRead(p)

Spec == Init /\ [][Next]_vars

\* Redis ends a BRPOP whose timeout has passed, and a served handler returns.
SpecFair ==
    /\ Spec
    /\ \A p \in Procs : WF_vars(BrpopTimeout(p))
    /\ \A p \in Procs : WF_vars(JobGetReturn(p))

\* The output stream of a job: appends, drains and the key's expiry.
StreamIds == {U1, NotAUuid}

NextOutput ==
    \/ \E p \in Procs : \E job_id \in StreamIds : OutputGet(p, job_id)
    \/ \E p \in Procs : \E job_id \in StreamIds : \E data \in OutputChunks :
            OutputPost(p, job_id, data)
    \/ \E p \in Procs : OutputPostExpire(p)
    \/ \E key \in expires : KeyExpires(key)

SpecOutput == Init /\ [][NextOutput]_vars

\* Every operation that takes a job id, one request at a time, on ids a caller
\* comes up with: one that is no UUID yet parses, and one that does not parse.
Solo == {1}
IdInputs == {OxId, NotAUuid}

NextIds ==
    \/ \E p \in Solo : \E data \in JobDatas(IdInputs) : JobPost(p, data)
    \/ \E p \in Solo : JobPostExists(p)
    \/ \E p \in Solo : JobPostOpen(p)
    \/ \E p \in Solo : JobPostWrite(p)
    \/ \E p \in Solo : \E job_id \in IdInputs : \E data \in ResultDatas :
            ResultPost(p, job_id, data)
    \/ \E p \in Solo : ResultPostWrite(p)
    \/ \E p \in Solo : \E job_id \in IdInputs : ResultGet(p, job_id)
    \/ \E p \in Solo : ResultGetRead(p)
    \/ \E p \in Solo : \E job_id \in IdInputs : \E blob \in ArtifactBlobs :
            ArtifactsPost(p, job_id, blob)
    \/ \E p \in Solo : ArtifactsPostWrite(p)
    \/ \E p \in Solo : \E job_id \in IdInputs : ArtifactsGet(p, job_id)
    \/ \E p \in Solo : ArtifactsGetSend(p)
    \/ \E p \in Solo : \E job_id \in IdInputs : OutputGet(p, job_id)
    \/ \E p \in Solo : \E job_id \in IdInputs : \E data \in OutputChunks :
            OutputPost(p, job_id, data)
    \/ \E p \in Solo : OutputPostExpire(p)
    \/ \E key \in expires : KeyExpires(key)

SpecIds == Init /\ [][NextIds]_vars

\* The three stores side by side, one request at a time: submissions, results,
\* artifacts and output of one id a caller chose and of the ids job_post
\* generates, on a queue with a plain name and on a queue named like the stream
\* key of the caller's id.
StoreIds == {U1}
StoreQueues == {Q2, OutputKey(U1)}

NextStores ==
    \/ \E p \in Solo : \E data \in JobDatasOn(StoreQueues, StoreIds) : JobPost(p, data)
    \/ \E p \in Solo : JobPostExists(p)
    \/ \E p \in Solo : JobPostOpen(p)
    \/ \E p \in Solo : JobPostWrite(p)
    \/ \E p \in Solo : \E job_id \in StoreIds : \E data \in ResultDatas :
            ResultPost(p, job_id, data)
    \/ \E p \in Solo : ResultPostWrite(p)
    \/ \E p \in Solo : \E job_id \in StoreIds : ResultGet(p, job_id)
    \/ \E p \in Solo : ResultGetRead(p)
    \/ \E p \in Solo : \E job_id \in StoreIds : \E blob \in ArtifactBlobs :
            ArtifactsPost(p, job_id, blob)
    \/ \E p \in Solo : ArtifactsPostWrite(p)
    \/ \E p \in Solo : \E job_id \in StoreIds : ArtifactsGet(p, job_id)
    \/ \E p \in Solo : ArtifactsGetSend(p)
    \/ \E p \in Solo : \E job_id \in StoreIds : OutputGet(p, job_id)
    \/ \E p \in Solo : \E job_id \in StoreIds : \E data \in OutputChunks :
            OutputPost(p, job_id, data)
    \/ \E p \in Solo : OutputPostExpire(p)
    \/ \E key \in expires : KeyExpires(key)

SpecStores == Init /\ [][NextStores]_vars

\* Submissions alone: concurrent job_post requests for an id a caller chose or
\* for generated ids, on one queue.
NextSubmit ==
    \/ \E p \in Procs : \E data \in JobDatasOn({Q2}, {U1}) : JobPost(p, data)
    \/ \E p \in Procs : JobPostExists(p)
    \/ \E p \in Procs : JobPostOpen(p)
    \/ \E p \in Procs : JobPostWrite(p)

SpecSubmit == Init /\ [][NextSubmit]_vars

\* Submissions and claims without end: the record pushed last leaves the history
\* once a claim was handed it and has answered, so that submissions go on
\* arriving in a run of any length.
Forget ==
    /\ pushed # <<>>
    /\ \E i \in 1..Len(delivered) :
        /\ delivered[i].kind = "job"
        /\ delivered[i].n = Len(pushed)
        /\ \A p \in Procs :
            ~(proc[p].pc = "jg_got" /\ proc[p].job = delivered[i].bytes)
    /\ pushed' = SubSeq(pushed, 1, Len(pushed) - 1)
    /\ delivered' = SelectSeq(delivered, LAMBDA e : e.n # Len(pushed))
    /\ UNCHANGED <<proc, redisVars, files, resp, issued, appended, drained,
                   reclaimed, submitted, written, posting, posted>>

\* the submissions of a run of claims: on either queue, with a fresh id or
\* with an id a response has told
ClaimDatas ==
    {JobData(q, id) : q \in QueueNames,
                      id \in {None} \cup {id \in issued : Disclosed(id)}}

\* a worker's claim: on the second queue alone, or on both in order
WorkerLists == {<<Q2>>, <<Q1, Q2>>}

NextClaims ==
    \/ \E p \in Procs : \E data \in ClaimDatas : JobPost(p, data)
    \/ \E p \in Procs : JobPostExists(p)
    \/ \E p \in Procs : JobPostOpen(p)
    \/ \E p \in Procs : JobPostWrite(p)
    \/ \E p \in Procs : \E queue_list \in WorkerLists : JobGet(p, queue_list)
    \/ \E p \in Procs : BrpopTimeout(p)
    \/ \E p \in Procs : JobGetReturn(p)
    \/ Forget

\* Every handler goes on to its next step, and a worker keeps claiming on both
\* queues.
SpecClaims ==
    /\ Init /\ [][NextClaims]_vars
    /\ \A p \in Procs : WF_vars(JobPostExists(p))
    /\ \A p \in Procs : WF_vars(JobPostOpen(p))
    /\ \A p \in Procs : WF_vars(JobPostWrite(p))
    /\ \A p \in Procs : WF_vars(BrpopTimeout(p))
    /\ \A p \in Procs : WF_vars(JobGetReturn(p))
    /\ SF_vars(\E p \in Procs : JobGet(p, <<Q1, Q2>>))

\* check_valid_uuid on its own: each handler holds a job_id it was called
\* with, a UUID in one of its renderings or a string that is none, and checks it.
ValidateInputs ==
    {U1, Canon("F"), Canon("g"), Rep("a", 32), Rep("a", 31), Rep("a", 33),
     <<"{">> \o U1 \o <<"}">>, <<"u", "r", "n", ":", "u", "u", "i", "d", ":">> \o U1,
     OxId, <<" ">> \o Rep("a", 31), <<"+">> \o Rep("a", 31),
     U1 \o <<".", "a", "r", "t", "i", "f", "a", "c", "t">>,
     NotAUuid, EmptyId, None}

InitValidate ==
    /\ proc \in [Procs -> {[pc |-> "check", job_id |-> id] : id \in ValidateInputs}]
    /\ lists = <<>>
    /\ expires = {}
    /\ blocked = <<>>
    /\ files = <<>>
    /\ resp = NoResponse
    /\ issued = {}
    /\ pushed = <<>>
    /\ delivered = <<>>
    /\ appended = <<>>
    /\ drained = <<>>
    /\ reclaimed = {}
    /\ submitted = {}
    /\ written = <<>>
    /\ posting = {}
    /\ posted = <<>>

\* the handler's call of check_valid_uuid(job_id) returns
Validate(p) ==
    /\ proc[p].pc = "check"
    /\ proc' = [proc EXCEPT ![p] = [pc |-> "checked", job_id |-> proc[p].job_id,
                                    valid |-> CheckValidUuid(proc[p].job_id)]]
    /\ UNCHANGED <<redisVars, files, resp, issued, histVars>>

NextValidate == \E p \in Procs : Validate(p)

SpecValidate == InitValidate /\ [][NextValidate]_vars

(***************************************************************************)
(* Properties.                                                             *)
(***************************************************************************)
Count(seq, x) == Cardinality({i \in 1..Len(seq) : seq[i] = x})

\* how many times x sits in the Redis lists
Queued(x) ==
    IF DOMAIN lists = {} THEN 0
    ELSE LET keys == DOMAIN lists
             RECURSIVE Sum(_)
             Sum(S) == IF S = {} THEN 0
                       ELSE LET k == CHOOSE k \in S : TRUE
                            IN  Count(lists[k], x) + Sum(S \ {k})
         IN  Sum(keys)

\* the element pushed by the n-th submission
Pushed(n) == JobElem(n, pushed[n].items)

\* C1: every record submit pushed is still in its queue or was handed to
\* exactly one claim: never to two claims, and never both handed out and kept.
C1_AtMostOnceDelivery ==
    \A n \in 1..Len(pushed) :
        /\ Count(delivered, Pushed(n)) + Queued(Pushed(n)) = 1
        /\ Len(delivered) <= Len(pushed)

\* one record was pushed and handed to a claim, and a later claim on the
\* queues was answered 204
C1_Witness ==
    /\ Len(pushed) = 1
    /\ delivered = <<Pushed(1)>>
    /\ resp = Response("job_get", 204, <<>>)

\* C10: a claim blocked on empty queues always ends; when the timeout ends it
\* the answer is 204 with no body (not an error), and no queue has changed.
C10_ClaimTerminates ==
    /\ \A p \in Procs : [](proc[p].pc = "brpop" => <>(proc[p].pc # "brpop"))
    /\ [][\A p \in Procs :
            (proc[p].pc = "brpop" /\ proc'[p].pc = "idle")
                => /\ resp' = Response("job_get", 204, <<>>)
                   /\ UNCHANGED <<lists, delivered>>]_vars

\* a claim was made while nothing had been submitted, and was answered 204
C10_Witness ==
    /\ pushed = <<>>
    /\ lists = <<>>
    /\ resp = Response("job_get", 204, <<>>)

\* the element appended by the n-th output_post
Chunk(n) == ChunkElem(n, appended[n].data)

\* C2: under every interleaving of appends and drains, each appended chunk is
\* in exactly one place: still in its stream, in the result of exactly one
\* drain, or (only when its key expired) reclaimed by Redis.  A drain empties
\* the stream, so no chunk is returned twice and none is deleted unreturned.
C2_DrainAtomic ==
    \A n \in 1..Len(appended) :
        Count(drained, Chunk(n)) + Queued(Chunk(n))
            + (IF Chunk(n) \in reclaimed THEN 1 ELSE 0) = 1

\* the elements of seq that are chunks appended to the stream key, in order
StreamOf(seq, key) ==
    SelectSeq(seq, LAMBDA e : e.kind = "chunk" /\ appended[e.n].key = key)

\* C11: for every output stream, the chunks that successive drains returned,
\* followed by what the stream still holds, are the chunks appended to it in
\* the order of the appends (those lost to an expiry aside); a drain leaves
\* the stream empty, so that a second drain right after it returns nothing.
C11_OrderPreserved ==
    \A n \in 1..Len(appended) :
        LET key == appended[n].key
        IN  StreamOf(drained, key) \o StreamOf(ListOf(key), key)
                = StreamOf(SelectSeq([m \in 1..Len(appended) |-> Chunk(m)],
                                     LAMBDA e : e \notin reclaimed), key)

\* how many submissions were pushed under job_id
SubmitCount(job_id) == Cardinality({n \in 1..Len(pushed) : pushed[n].job_id = job_id})

\* C3: for an id submitted once, after the worker that claimed the job has
\* completed its result post (and while no other result post is writing), the
\* result record is the posted payload.
C3_PostedResultStays ==
    \A id \in DOMAIN posted :
        (/\ posted[id].claimed
         /\ SubmitCount(id) = 1
         /\ \A p \in Procs : ~(proc[p].pc = "rp_write" /\ proc[p].job_id = id))
            => files[ResultFile(id)] = posted[id].data

\* C4: a submission that generated its id writes 'waiting' as the result record.
C4_FreshSubmitWritesWaiting ==
    \A p \in Procs :
        (proc[p].pc = "jp_write" /\ proc[p].fresh) => proc[p].job_state = Waiting

\* C5: once a submit of an id has returned, the result record exists, and until
\* a result post for the id begins it holds 'waiting' or 'resubmitted'.
C5_RecordExistsWithPlaceholder ==
    \A id \in submitted :
        /\ ResultFile(id) \in DOMAIN files
        /\ id \notin posting
            => files[ResultFile(id)] \in {DumpsState(Waiting), DumpsState(Resubmitted)}

\* C6: a submit called after a submit of the same id has returned writes
\* 'resubmitted': that is what it writes, it is the content of the record once
\* written (no other request having written the file since this call opened
\* it), whatever the record held before; the id is returned, and by then the
\* id has been pushed at least twice, each push on the queue its request names.
C6_Resubmission ==
    [][\A p \in Procs :
        (proc[p].pc = "jp_write" /\ proc'[p].pc = "idle" /\ proc[p].again)
            => LET id == proc[p].job_id
                   path == ResultFile(id)
               IN  /\ written'[path] = DumpsState(Resubmitted)
                   /\ files[path] = <<>> => files'[path] = DumpsState(Resubmitted)
                   /\ resp' = Response("job_post", 200, JobIdReply(id))
                   /\ SubmitCount(id) >= 2
                   /\ \A n \in 1..Len(pushed) :
                        pushed[n].key = DictGet(pushed[n].items, KeyJobQueue)]_vars

\* an id was submitted, its result posted, and a second submit has replaced the
\* posted result by 'resubmitted', after two pushes
C6_Witness ==
    \E id \in submitted :
        /\ id \in DOMAIN posted
        /\ SubmitCount(id) = 2
        /\ files[ResultFile(id)] = DumpsState(Resubmitted)
        /\ resp = Response("job_post", 200, JobIdReply(id))
        /\ \A p \in Procs : proc[p].pc = "idle"

\* the canonical form: 8-4-4-4-12 hex digits with hyphens
IsCanonicalUuid(s) ==
    /\ Len(s) = 36
    /\ \A i \in 1..Len(s) :
        IF i \in {9, 14, 19, 24} THEN s[i] = "-" ELSE s[i] \in HexDigits

\* C7: a string that is not a UUID gets nothing into any store: no file of a
\* result or an artifact, no output stream, no job on a queue is under it.
C7_NonUuidTouchesNoStore ==
    \A id \in UserIds \cup GenPool :
        ~IsCanonicalUuid(id)
            => /\ ResultFile(id) \notin DOMAIN files
               /\ ArtifactFile(id) \notin DOMAIN files
               /\ OutputKey(id) \notin DOMAIN lists
               /\ SubmitCount(id) = 0

\* C8: no submission is ever pushed for a request without a job_queue, and a
\* request answered "no job_queue" changes no queue, no file and no handler.
C8_NoQueueNoEffect ==
    /\ [](\A n \in 1..Len(pushed) :
            /\ ~Falsy(DictGet(pushed[n].items, KeyJobQueue))
            /\ pushed[n].key = DictGet(pushed[n].items, KeyJobQueue))
    /\ [][(resp' # resp /\ resp' = Response("job_post", 400, MsgNoQueue))
            => UNCHANGED <<proc, lists, expires, blocked, files, issued, pushed,
                           delivered, submitted, written>>]_vars

\* a request without job_queue was refused while a job was queued and its
\* result record was in place
C8_Witness ==
    /\ resp = Response("job_post", 400, MsgNoQueue)
    /\ Len(pushed) = 1
    /\ Queued(Pushed(1)) = 1
    /\ \E id \in submitted : files[ResultFile(id)] = DumpsState(Waiting)

\* C9: the content of a file (what a read of it returns) is the data of the
\* most recently completed write to it.
C9_ReadReturnsLastWrite ==
    \A path \in DOMAIN written : files[path] = written[path]

\* no submit and no result post was ever begun for the id
UntouchedResult(job_id) == SubmitCount(job_id) = 0 /\ job_id \notin posting

\* no artifact post was ever begun for the id
UntouchedArtifact(job_id) ==
    /\ ArtifactFile(job_id) \notin DOMAIN written
    /\ \A p \in Procs : ~(proc[p].pc = "ap_write" /\ proc[p].job_id = job_id)

\* nothing was ever pushed on the stream key of the id
UntouchedStream(job_id) ==
    /\ \A n \in 1..Len(appended) : appended[n].key # OutputKey(job_id)
    /\ \A n \in 1..Len(pushed) : pushed[n].key # OutputKey(job_id)

\* C12: for the valid id U1 (the only id read here), as long as it was never
\* submitted nor written to: a result read and an artifact read answer 204 with
\* no body and a drain answers 204, none of them an error; no read creates a
\* result record, an artifact or a stream; and the first submit of an id that
\* was only read so far decides 'waiting'.
C12_UnknownIdNotReady ==
    /\ [](/\ UntouchedResult(U1) => ResultFile(U1) \notin DOMAIN files
          /\ UntouchedArtifact(U1) => ArtifactFile(U1) \notin DOMAIN files
          /\ UntouchedStream(U1) => OutputKey(U1) \notin DOMAIN lists)
    /\ [][/\ (resp' # resp /\ resp'.op = "result_get" /\ UntouchedResult(U1))
                => resp' = Response("result_get", 204, <<>>)
          /\ (resp' # resp /\ resp'.op = "artifacts_get" /\ UntouchedArtifact(U1))
                => resp' = Response("artifacts_get", 204, <<>>)
          /\ (resp' # resp /\ resp'.op = "output_get" /\ UntouchedStream(U1))
                => resp' = Response("output_get", 204, <<>>)
          /\ \A p \in Procs :
                (/\ proc[p].pc = "jp_exists" /\ proc'[p].pc = "jp_open"
                 /\ SubmitCount(proc[p].job_id) = 1
                 /\ proc[p].job_id \notin posting)
                    => proc'[p].job_state = Waiting]_vars

\* U1 was read while unknown (204), and its first submit then decided 'waiting'
C12_Witness ==
    /\ resp = Response("result_get", 204, <<>>)
    /\ \E p \in Procs :
        /\ proc[p].pc = "jp_open"
        /\ proc[p].job_id = U1
        /\ proc[p].job_state = Waiting
    /\ SubmitCount(U1) = 1

\* the ids in play in the three stores
KnownIds == StoreIds \cup GenPool

\* the step is one of handler p's artifact post
ArtifactPostStep(p) ==
    /\ proc'[p] # proc[p]
    /\ proc[p].pc = "ap_write" \/ proc'[p].pc = "ap_write"

\* the step is one of handler p's submit or result post
SubmitOrResultPostStep(p) ==
    /\ proc'[p] # proc[p]
    /\ \/ proc[p].pc \in {"jp_exists", "jp_open", "jp_write", "rp_write"}
       \/ proc'[p].pc \in {"jp_exists", "rp_write"}

\* the file is there or not, and holds, after the step what it did before
SameFile(path) ==
    /\ (path \in DOMAIN files') = (path \in DOMAIN files)
    /\ path \in DOMAIN files => files'[path] = files[path]

\* C13: a step of an artifact post leaves the result record of every id as it
\* is (so no id becomes known to submit by it); a step of a submit or of a
\* result post leaves the artifact of every id and every output stream as
\* they are.
C13_NamespacesDisjoint ==
    [][\A p \in Procs :
        /\ ArtifactPostStep(p)
            => \A K \in KnownIds : SameFile(ResultFile(K))
        /\ SubmitOrResultPostStep(p)
            => \A K \in KnownIds :
                /\ SameFile(ArtifactFile(K))
                /\ (OutputKey(K) \in DOMAIN lists') = (OutputKey(K) \in DOMAIN lists)
                /\ OutputKey(K) \in DOMAIN lists
                    => lists'[OutputKey(K)] = lists[OutputKey(K)]]_vars

\* the step is one of a result read or of an artifact read
ReadStep ==
    \/ resp' # resp /\ resp'.op \in {"result_get", "artifacts_get"}
    \/ \E p \in Procs :
        /\ proc'[p] # proc[p]
        /\ \/ proc[p].pc \in {"rg_read", "ag_send"}
           \/ proc'[p].pc \in {"rg_read", "ag_send"}

\* C14: a step of a result read or of an artifact read changes no file, no
\* queue, no stream and no expiry; and of two reads of the same kind that answer
\* one right after the other (all reads here are of U1), the second answers
\* what the first did.
C14_ReadsChangeNothing ==
    [][/\ ReadStep => UNCHANGED <<files, lists, expires, blocked>>
       /\ (resp.op \in {"result_get", "artifacts_get"} /\ resp'.op = resp.op)
            => resp' = resp]_vars

\* a result read has returned the record of U1 and the next read of it is
\* about to return the same record
C14_Witness ==
    /\ ResultFile(U1) \in DOMAIN files
    /\ files[ResultFile(U1)] = DumpsState(Waiting)
    /\ resp = Response("result_get", 200, DumpsState(Waiting))
    /\ \E p \in Procs : proc[p].pc = "rg_read" /\ proc[p].job_id = U1

\* C15: check_valid_uuid returns True for a string exactly when the string is
\* a UUID in canonical form, and False for anything else.
C15_ValidIffCanonical ==
    \A p \in Procs :
        proc[p].pc = "checked" => proc[p].valid = IsCanonicalUuid(proc[p].job_id)

\* C16: whenever no append for an id is between its RPUSH and its EXPIRE, the
\* stream of the id, if it holds anything, has a time to live set.
C16_StreamHasExpiry ==
    \A id \in StreamIds :
        (/\ \A p \in Procs : ~(proc[p].pc = "op_expire" /\ proc[p].job_id = id)
         /\ OutputKey(id) \in DOMAIN lists)
            => OutputKey(id) \in expires

\* two appends, the first drained before the second: the stream holds the second
\* chunk with its time to live set, and no append is in progress
C16_Witness ==
    /\ \A p \in Procs : proc[p].pc = "idle"
    /\ Len(appended) = 2
    /\ Len(drained) = 1
    /\ OutputKey(U1) \in DOMAIN lists
    /\ OutputKey(U1) \in expires

\* handler p has decided the placeholder of its submit and not yet returned
Deciding(p) == proc[p].pc \in {"jp_open", "jp_write"}

\* C17: of the submits of one id, at most one decides 'waiting': no two submits
\* in progress have both decided 'waiting' for the same id, and none has
\* decided 'waiting' for an id whose record a finished submit wrote 'waiting'.
C17_OneWaitingPerId ==
    \A p \in Procs :
        (Deciding(p) /\ proc[p].job_state = Waiting)
            => /\ \A q \in Procs \ {p} :
                    ~(/\ Deciding(q)
                      /\ proc[q].job_id = proc[p].job_id
                      /\ proc[q].job_state = Waiting)
               /\ ResultFile(proc[p].job_id) \in DOMAIN written
                    => written[ResultFile(proc[p].job_id)] # DumpsState(Waiting)

\* the queue names of a queue list
Named(queue_list) == {queue_list[i] : i \in 1..Len(queue_list)}

\* C18: of two records pushed on the same queue, the later one is handed to a
\* claim only after the earlier one was; and what a claim is handed, and
\* answers with, is the bytes of a record a submit pushed, its job_id in it, on
\* a queue the claim names.
C18_QueuesAreFifo ==
    /\ [](\A m, n \in 1..Len(pushed) :
            (m < n /\ pushed[m].key = pushed[n].key)
                => \A j \in 1..Len(delivered) :
                    delivered[j] = Pushed(n)
                        => \E i \in 1..(j - 1) : delivered[i] = Pushed(m))
    /\ [](\A j \in 1..Len(delivered) :
            /\ delivered[j] = Pushed(delivered[j].n)
            /\ DictGet(pushed[delivered[j].n].items, KeyJobId)
                    = pushed[delivered[j].n].job_id)
    /\ [][\A p \in Procs :
            /\ \A queue_list \in QueueLists :
                (JobGet(p, queue_list) /\ delivered' # delivered)
                    => /\ pushed[delivered'[Len(delivered')].n].key \in Named(queue_list)
                       /\ resp' = Response("job_get", 200,
                                           delivered'[Len(delivered')].bytes)
            /\ (proc[p].pc # "jg_got" /\ proc'[p].pc = "jg_got")
                    => /\ pushed'[delivered'[Len(delivered')].n].key \in Named(proc[p].keys)
                       /\ proc'[p].job = delivered'[Len(delivered')].bytes
            /\ (proc[p].pc = "jg_got" /\ proc'[p].pc = "idle")
                    => resp' = Response("job_get", 200, proc[p].job)]_vars

\* two records were pushed on one queue and handed to claims in that order
C18_Witness ==
    /\ Len(pushed) = 2
    /\ pushed[1].key = pushed[2].key
    /\ delivered = <<Pushed(1), Pushed(2)>>
    /\ resp = Response("job_get", 200, Pushed(2).bytes)

\* the n-th record of the history waits in its queue / was handed to a claim
Waits(n) == n <= Len(pushed) /\ Queued(Pushed(n)) = 1
HandedOut(n) == n <= Len(pushed) /\ Count(delivered, Pushed(n)) = 1

\* C19 as stated: with a worker that keeps claiming on a list that names every
\* queue, every record that waits in a queue is eventually handed to a claim.
C19_NoStarvation == \A n \in 1..MaxPush : Waits(n) ~> HandedOut(n)

\* a claim that names queue and finds every queue it names before it empty
ClaimFinding(queue) ==
    \E p \in Procs : \E queue_list \in WorkerLists :
        /\ JobGet(p, queue_list)
        /\ \E i \in 1..Len(queue_list) :
            /\ queue_list[i] = queue
            /\ \A j \in 1..(i - 1) : ListOf(queue_list[j]) = <<>>

\* C19 as amended: a record that waits in a queue is eventually handed to a
\* claim provided claims that name the queue and find the queues named before
\* it empty keep being made.
C19_NoStarvationOfFirst ==
    \A queue \in QueueNames :
        ([]<><<ClaimFinding(queue)>>_vars)
            => \A n \in 1..MaxPush :
                (Waits(n) /\ pushed[n].key = queue) ~> HandedOut(n)

\* a record waited in the second queue while a later record of the first queue
\* was handed out before it, and was handed out once the first queue was empty
C19_Witness ==
    /\ Len(pushed) = 2
    /\ pushed[1].key = Q2
    /\ pushed[2].key = Q1
    /\ delivered = <<Pushed(2), Pushed(1)>>

\* what the writes of a result record write: a placeholder, or a posted result
WholeRecords ==
    {DumpsState(Waiting), DumpsState(Resubmitted)}
        \cup {Dumps(data) : data \in ResultDatas}

\* C20: a result read that answers with a record answers with the complete
\* content of some write, never with an empty or partly written record.
C20_NoTornRead ==
    (resp.op = "result_get" /\ resp.code = 200) => resp.body \in WholeRecords

====
